---------------------------- MODULE Spec2Model ----------------------------
(***************************************************************************)
(* Model of the SEMrush insights prototype (src/utils.py, src/app.py):     *)
(* column normalisation, gap analysis and the rule-based insight report.   *)
(*                                                                         *)
(* A DataFrame is a record [cols, rows]: cols the sequence of column       *)
(* names, rows a sequence of rows, each a sequence of cells aligned with   *)
(* cols.  A cell is [kind, num, text] with kind one of                     *)
(*   "int"   a Python/NumPy integer, num its value;                        *)
(*   "float" a finite float with one decimal digit, num its value in       *)
(*           tenths (105 is 10.5);                                         *)
(*   "nan"   a missing value (NaN);                                        *)
(*   "text"  a Python str, text its characters.                            *)
(* The tables of the model have pairwise distinct column names after       *)
(* trimming and lowercasing, and no infinite numbers.                      *)
(***************************************************************************)
EXTENDS Integers, Sequences, FiniteSets, TLC

VARIABLES
    pc,                      \* "idle", "uploaded", "gaps", "done"
    df,                      \* the uploaded table (app.py:19)
    min_volume,              \* arguments of the last run_gap_analysis call
    gap_position_threshold,
    top_n,
    norm,                    \* the table after _normalize_columns (utils.py:59)
    gaps,                    \* the records run_gap_analysis returned
    question,                \* argument of the last generate_insight_no_llm call
    top_themes,              \* local top_themes of generate_insight_no_llm
    insight                  \* the report generate_insight_no_llm returned

vars == <<pc, df, min_volume, gap_position_threshold, top_n, norm, gaps,
          question, top_themes, insight>>

-----------------------------------------------------------------------------
(* Bounds of the model *)

\* most rows of a table drawn from the mixed-schema pools
MaxWideRows == 3

\* rows of the long tables (more gap records than the report lists)
MaxRows == 9

-----------------------------------------------------------------------------
(* Cells *)

IntCell(n) == [kind |-> "int", num |-> n, text |-> ""]

FloatCell(t) == [kind |-> "float", num |-> t, text |-> ""]

NaN == [kind |-> "nan", num |-> 0, text |-> ""]

TextCell(s) == [kind |-> "text", num |-> 0, text |-> s]

-----------------------------------------------------------------------------
(* Strings: Python's str operations on TLC strings *)

Char(s, i) == SubSeq(s, i, i)

UpperAlpha == "ABCDEFGHIJKLMNOPQRSTUVWXYZ"

LowerAlpha == "abcdefghijklmnopqrstuvwxyz"

DigitChars == "0123456789"

UpperChars == {Char(UpperAlpha, i) : i \in 1..Len(UpperAlpha)}

\* str.lower() on one ASCII character
LowerChar(c) ==
    IF c \in UpperChars
    THEN Char(LowerAlpha, CHOOSE i \in 1..Len(UpperAlpha) : Char(UpperAlpha, i) = c)
    ELSE c

RECURSIVE Lower(_)
\* str.lower()
Lower(s) ==
    IF Len(s) = 0 THEN ""
    ELSE LowerChar(Char(s, 1)) \o Lower(SubSeq(s, 2, Len(s)))

IsSpace(c) == c = " "

RECURSIVE LStrip(_)
LStrip(s) ==
    IF Len(s) > 0 /\ IsSpace(Char(s, 1)) THEN LStrip(SubSeq(s, 2, Len(s))) ELSE s

RECURSIVE RStrip(_)
RStrip(s) ==
    IF Len(s) > 0 /\ IsSpace(Char(s, Len(s))) THEN RStrip(SubSeq(s, 1, Len(s) - 1)) ELSE s

\* str.strip()
Strip(s) == RStrip(LStrip(s))

\* Python's "tok in s" for strings
Contains(s, tok) ==
    \E i \in 1..(Len(s) - Len(tok) + 1) : SubSeq(s, i, i + Len(tok) - 1) = tok

\* any(t in s for t in tokens)
ContainsAny(s, tokens) == \E k \in 1..Len(tokens) : Contains(s, tokens[k])

RECURSIVE NatToStr(_)
NatToStr(n) ==
    IF n < 10 THEN Char(DigitChars, n + 1)
    ELSE NatToStr(n \div 10) \o Char(DigitChars, (n % 10) + 1)

\* str(n) of an integer
IntToStr(n) == IF n < 0 THEN "-" \o NatToStr(-n) ELSE NatToStr(n)

\* str(x) of a float given in tenths: 105 is "10.5", 5000 is "500.0"
FloatToStr(t) ==
    IF t < 0 THEN "-" \o NatToStr((-t) \div 10) \o "." \o NatToStr((-t) % 10)
    ELSE NatToStr(t \div 10) \o "." \o NatToStr(t % 10)

IsDigit(c) == \E i \in 1..Len(DigitChars) : Char(DigitChars, i) = c

DigitValue(c) == (CHOOSE i \in 1..Len(DigitChars) : Char(DigitChars, i) = c) - 1

AllDigits(s) == Len(s) > 0 /\ \A i \in 1..Len(s) : IsDigit(Char(s, i))

RECURSIVE DigitsValue(_)
DigitsValue(s) ==
    IF Len(s) = 0 THEN 0
    ELSE 10 * DigitsValue(SubSeq(s, 1, Len(s) - 1)) + DigitValue(Char(s, Len(s)))

-----------------------------------------------------------------------------
(* pandas element operations *)

\* Series.astype(str) on one element
AsStr(c) ==
    CASE c.kind = "int" -> TextCell(IntToStr(c.num))
      [] c.kind = "float" -> TextCell(FloatToStr(c.num))
      [] c.kind = "nan" -> TextCell("nan")
      [] OTHER -> c

\* pd.to_numeric(errors="coerce") on one element: numbers stay, a str of
\* decimal digits with an optional sign parses to an integer, any other str
\* of the model becomes NaN
ToNumeric(c) ==
    IF c.kind \in {"int", "float", "nan"} THEN c
    ELSE LET s == c.text
             body == IF Len(s) > 0 /\ Char(s, 1) \in {"-", "+"}
                     THEN SubSeq(s, 2, Len(s)) ELSE s
             neg == Len(s) > 0 /\ Char(s, 1) = "-"
         IN IF AllDigits(body)
            THEN IntCell(IF neg THEN -DigitsValue(body) ELSE DigitsValue(body))
            ELSE NaN

\* Series.fillna(d) on one element
FillNa(c, d) == IF c.kind = "nan" THEN IntCell(d) ELSE c

\* Series.astype(int) on one non-missing number: a float is truncated
\* toward zero
AsInt(c) ==
    IF c.kind = "float"
    THEN IntCell(IF c.num >= 0 THEN c.num \div 10 ELSE -((-c.num) \div 10))
    ELSE c

-----------------------------------------------------------------------------
(* pandas DataFrame operations *)

\* name in df.columns
HasColumn(d, name) == \E i \in 1..Len(d.cols) : d.cols[i] = name

ColumnIndex(d, name) == CHOOSE i \in 1..Len(d.cols) : d.cols[i] = name

\* df.rename(columns={old: new}, inplace=True)
Rename(d, old, new) ==
    [d EXCEPT !.cols = [i \in 1..Len(d.cols) |->
                           IF d.cols[i] = old THEN new ELSE d.cols[i]]]

\* df[name] = value, for a name that is not a column yet
AddColumn(d, name, value) ==
    [cols |-> Append(d.cols, name),
     rows |-> [r \in 1..Len(d.rows) |-> Append(d.rows[r], value)]]

RECURSIVE RenameFirstAlias(_, _, _)
\* for alt in alts: if alt in df.columns: rename alt to target; break
RenameFirstAlias(d, alts, target) ==
    IF alts = <<>> THEN d
    ELSE IF HasColumn(d, Head(alts)) THEN Rename(d, Head(alts), target)
    ELSE RenameFirstAlias(d, Tail(alts), target)

VolumeAliases == <<"vol", "search_volume", "search volume", "monthly_volume">>

PositionAliases == <<"pos", "rank">>

\* df.columns = [c.strip().lower() for c in df.columns]
StripLowerColumns(d) ==
    [d EXCEPT !.cols = [i \in 1..Len(d.cols) |-> Lower(Strip(d.cols[i]))]]

\* fallback: first column becomes keyword
ResolveKeyword(d) ==
    IF ~HasColumn(d, "keyword") THEN Rename(d, d.cols[1], "keyword") ELSE d

ResolveVolume(d) ==
    LET d1 == IF ~HasColumn(d, "volume")
              THEN RenameFirstAlias(d, VolumeAliases, "volume") ELSE d
    IN IF ~HasColumn(d1, "volume") THEN AddColumn(d1, "volume", IntCell(0)) ELSE d1

ResolvePosition(d) ==
    LET d1 == IF ~HasColumn(d, "position")
              THEN RenameFirstAlias(d, PositionAliases, "position") ELSE d
    IN IF ~HasColumn(d1, "position") THEN AddColumn(d1, "position", IntCell(999)) ELSE d1

ResolveOptional(d) ==
    LET d1 == IF ~HasColumn(d, "url") THEN AddColumn(d, "url", TextCell("")) ELSE d
    IN IF ~HasColumn(d1, "domain") THEN AddColumn(d1, "domain", TextCell("")) ELSE d1

CoerceKeyword(c) == AsStr(c)

CoerceVolume(c) == AsInt(FillNa(ToNumeric(c), 0))

CoercePosition(c) == AsInt(FillNa(ToNumeric(c), 999))

\* the "Types" block: keyword to str, volume and position to int
CoerceTypes(d) ==
    LET k == ColumnIndex(d, "keyword")
        v == ColumnIndex(d, "volume")
        p == ColumnIndex(d, "position")
    IN [d EXCEPT !.rows = [r \in 1..Len(d.rows) |->
            [i \in 1..Len(d.cols) |->
                LET c0 == d.rows[r][i]
                    c1 == IF i = k THEN CoerceKeyword(c0) ELSE c0
                    c2 == IF i = v THEN CoerceVolume(c1) ELSE c1
                IN IF i = p THEN CoercePosition(c2) ELSE c2]]]

_normalize_columns(d) ==
    CoerceTypes(ResolveOptional(ResolvePosition(ResolveVolume(
        ResolveKeyword(StripLowerColumns(d))))))

-----------------------------------------------------------------------------
(* run_gap_analysis *)

Min(a, b) == IF a <= b THEN a ELSE b

\* df[(df["volume"] >= min_volume) & (df["position"] > gap_position_threshold)]
FilterGaps(d, mv, th) ==
    LET v == ColumnIndex(d, "volume")
        p == ColumnIndex(d, "position")
        Keep(row) == row[v].num >= mv /\ row[p].num > th
    IN [d EXCEPT !.rows = SelectSeq(d.rows, Keep)]

\* mutant of KeyBefore: the sort ignores the position key
KeyBeforeVolumeOnly(v1, p1, v2, p2) == v1 > v2

\* the order of sort_values(by=["volume", "position"], ascending=[False, True]):
\* whether a row with keys (v1, p1) sorts strictly before one with (v2, p2)
KeyBefore(v1, p1, v2, p2) == v1 > v2 \/ (v1 = v2 /\ p1 < p2)

RECURSIVE InsertRow(_, _, _, _)
\* row placed behind every row of the sorted sequence it does not sort
\* strictly before
InsertRow(sorted, row, v, p) ==
    IF sorted = <<>> THEN <<row>>
    ELSE LET last == sorted[Len(sorted)]
         IN IF KeyBefore(row[v].num, row[p].num, last[v].num, last[p].num)
            THEN Append(InsertRow(SubSeq(sorted, 1, Len(sorted) - 1), row, v, p), last)
            ELSE Append(sorted, row)

RECURSIVE LexSortRows(_, _, _)
\* a sort on several keys is pandas' lexsort_indexer, which is stable
LexSortRows(rows, v, p) ==
    IF rows = <<>> THEN <<>>
    ELSE InsertRow(LexSortRows(SubSeq(rows, 1, Len(rows) - 1), v, p),
                   rows[Len(rows)], v, p)

SortByVolumePosition(d) ==
    [d EXCEPT !.rows = LexSortRows(d.rows, ColumnIndex(d, "volume"),
                                   ColumnIndex(d, "position"))]

\* DataFrame.head(n)
HeadRows(d, n) == [d EXCEPT !.rows = SubSeq(d.rows, 1, Min(n, Len(d.rows)))]

\* gaps[["keyword", "volume", "position", "url", "domain"]].to_dict(orient="records")
ToRecords(d) ==
    [r \in 1..Len(d.rows) |->
        [keyword |-> d.rows[r][ColumnIndex(d, "keyword")].text,
         volume |-> d.rows[r][ColumnIndex(d, "volume")].num,
         position |-> d.rows[r][ColumnIndex(d, "position")].num,
         url |-> d.rows[r][ColumnIndex(d, "url")],
         domain |-> d.rows[r][ColumnIndex(d, "domain")]]]

\* the function from the normalised table on (utils.py:61-64)
GapRecords(d, mv, th, n) ==
    ToRecords(HeadRows(SortByVolumePosition(FilterGaps(d, mv, th)), n))

-----------------------------------------------------------------------------
(* generate_insight_no_llm *)

\* the themes dict, in its insertion order
Themes ==
    << [name |-> "cost_coverage",
        tokens |-> <<"cost", "price", "coverage", "insurance", "benefits">>],
       [name |-> "comparisons", tokens |-> <<"vs", "versus", "compare", "best">>],
       [name |-> "how_to", tokens |-> <<"how", "timeline", "steps", "process">>],
       [name |-> "local", tokens |-> <<"near me", "clinic", "doctor", "center">>],
       [name |-> "eligibility",
        tokens |-> <<"qualify", "requirements", "eligible", "who can">>],
       [name |-> "success_rates", tokens |-> <<"success", "rate", "chances", "age">>] >>

\* mutant of CountKeyword: a keyword counts toward its first theme only
CountKeywordFirstTheme(hits, kw) ==
    LET low == Lower(kw)
        first(t) == /\ ContainsAny(low, Themes[t].tokens)
                    /\ \A u \in 1..(t - 1) : ~ContainsAny(low, Themes[u].tokens)
    IN [t \in 1..Len(Themes) |-> IF first(t) THEN hits[t] + 1 ELSE hits[t]] \o <<>>

\* one pass of the inner loop: every theme with a token in the lowercased
\* keyword is incremented (\o <<>> has TLC build the tuple once)
CountKeyword(hits, kw) ==
    LET low == Lower(kw)
    IN [t \in 1..Len(Themes) |->
           IF ContainsAny(low, Themes[t].tokens) THEN hits[t] + 1 ELSE hits[t]] \o <<>>

RECURSIVE ThemeHits(_)
\* theme_hits after the loop over the keywords, indexed like Themes
ThemeHits(keywords) ==
    IF keywords = <<>> THEN [t \in 1..Len(Themes) |-> 0]
    ELSE CountKeyword(ThemeHits(SubSeq(keywords, 1, Len(keywords) - 1)),
                      keywords[Len(keywords)])

RECURSIVE InsertTheme(_, _, _)
\* theme t placed behind every theme of the sorted sequence whose count is
\* not smaller
InsertTheme(sorted, t, hits) ==
    IF sorted = <<>> THEN <<t>>
    ELSE LET last == sorted[Len(sorted)]
         IN IF hits[t] > hits[last]
            THEN Append(InsertTheme(SubSeq(sorted, 1, Len(sorted) - 1), t, hits), last)
            ELSE Append(sorted, t)

RECURSIVE SortThemes(_, _)
\* sorted(theme_hits.items(), key=lambda x: x[1], reverse=True) over the
\* first n themes: Python's sort is stable, also with reverse=True
SortThemes(n, hits) ==
    IF n = 0 THEN <<>> ELSE InsertTheme(SortThemes(n - 1, hits), n, hits)

\* [:3] of the themes kept
ThemeCut == 3

\* top_themes: the names of the themes with a hit, best first, at most three
TopThemes(hits) ==
    LET order == SortThemes(Len(Themes), hits)
        Positive(t) == hits[t] > 0
        kept == SelectSeq(order, Positive)
    IN [i \in 1..Min(ThemeCut, Len(kept)) |-> Themes[kept[i]].name]

\* mutant of _suggest_asset_type: the success-rates rule is tried before
\* the how-to rule
SuggestAssetTypeSuccessFirst(keyword) ==
    LET k == Lower(keyword)
    IN IF ContainsAny(k, <<"cost", "price", "coverage", "insurance">>)
       THEN "Cost/Coverage hub page + FAQ"
       ELSE IF ContainsAny(k, <<"vs", "versus", "compare", "best">>)
       THEN "Comparison page"
       ELSE IF ContainsAny(k, <<"success", "rate", "chances", "age">>)
       THEN "Success rates explainer (medically reviewed)"
       ELSE IF ContainsAny(k, <<"how", "timeline", "steps", "process">>)
       THEN "How-to / Timeline guide"
       ELSE IF ContainsAny(k, <<"near me", "clinic", "doctor", "center">>)
       THEN "Local intent support page + FAQs"
       ELSE "Educational pillar page + supporting FAQs"

_suggest_asset_type(keyword) ==
    LET k == Lower(keyword)
    IN IF ContainsAny(k, <<"cost", "price", "coverage", "insurance">>)
       THEN "Cost/Coverage hub page + FAQ"
       ELSE IF ContainsAny(k, <<"vs", "versus", "compare", "best">>)
       THEN "Comparison page"
       ELSE IF ContainsAny(k, <<"how", "timeline", "steps", "process">>)
       THEN "How-to / Timeline guide"
       ELSE IF ContainsAny(k, <<"success", "rate", "chances", "age">>)
       THEN "Success rates explainer (medically reviewed)"
       ELSE IF ContainsAny(k, <<"near me", "clinic", "doctor", "center">>)
       THEN "Local intent support page + FAQs"
       ELSE "Educational pillar page + supporting FAQs"

\* .head(8) of the opportunities
TopOpps == 8

MaxVolume(recs) ==
    CHOOSE m \in {recs[i].volume : i \in 1..Len(recs)} :
        \A i \in 1..Len(recs) : recs[i].volume <= m

\* recs without its first occurrence of x
RemoveOne(recs, x) ==
    LET i == CHOOSE j \in 1..Len(recs) :
                 recs[j] = x /\ \A k \in 1..(j - 1) : recs[k] # x
    IN SubSeq(recs, 1, i - 1) \o SubSeq(recs, i + 1, Len(recs))

RECURSIVE SortByVolume(_)
\* df.sort_values("volume", ascending=False): a sort on one key runs with
\* kind="quicksort", which pandas documents as not stable, so rows of equal
\* volume may come out in any order.  The set of the orders it may return.
SortByVolume(recs) ==
    IF recs = <<>> THEN {<<>>}
    ELSE UNION { { <<x>> \o rest : rest \in SortByVolume(RemoveOne(recs, x)) } :
                 x \in {recs[i] : i \in {j \in 1..Len(recs) :
                                           recs[j].volume = MaxVolume(recs)}} }

\* the rows .head(8) may keep
TopOppsOutcomes(recs) ==
    {SubSeq(s, 1, Min(TopOpps, Len(s))) : s \in SortByVolume(recs)}

OpportunityItem(r) ==
    [keyword |-> r.keyword,
     volume |-> r.volume,
     current_position |-> r.position,
     suggested_asset |-> _suggest_asset_type(r.keyword),
     notes |-> "Prioritize by volume + intent; treat this as a content brief starter."]

PillarRec ==
    "Create 1-2 pillar pages for the highest-volume missed themes, then add supporting FAQ sections targeting long-tail variants."

CostCoverageRec ==
    "Build/refresh a 'Cost & Coverage' hub: IVF cost, egg freezing cost, what insurance covers, state-by-state considerations, and employer benefit explainers."

HowToRec ==
    "Publish a 'How it works / Timeline' guide with step-by-step sections, eligibility, and what to expect - optimize for 'how/timeline' queries."

ComparisonsRec ==
    "Create comparison pages (e.g., IVF vs surrogacy) with decision frameworks, pros/cons, and FAQ - these often win high-intent searches."

SuccessRatesRec ==
    "Add medically-reviewed success rate content with age bands, definitions, and citations - optimize headings for 'success rate' questions."

LocalRec ==
    "If appropriate, create a location/clinic-finder support page and SEO FAQs for 'near me' intent (often requires local SEO strategy)."

TacticalRecs ==
    << "For each new/updated page: add a concise definition near the top, a table of contents, and 6-10 FAQ items matching question-style keywords.",
       "Add internal links from your highest-traffic pages to the new hubs using descriptive anchor text.",
       "Track success: top 10 rankings for the cluster, organic entrances to the new pages, and downstream conversion proxy (CTA clicks / lead starts)." >>

\* "theme" in top_themes
InThemes(theme, tops) == \E i \in 1..Len(tops) : tops[i] = theme

\* mutant of RecommendedActions: the sentences follow the order of
\* top_themes instead of the fixed order
RecommendedActionsByRank(tops) ==
    LET RecOf(theme) ==
            CASE theme = "cost_coverage" -> <<CostCoverageRec>>
              [] theme = "how_to" -> <<HowToRec>>
              [] theme = "comparisons" -> <<ComparisonsRec>>
              [] theme = "success_rates" -> <<SuccessRatesRec>>
              [] theme = "local" -> <<LocalRec>>
              [] OTHER -> <<>>
        r1 == IF Len(tops) >= 1 THEN RecOf(tops[1]) ELSE <<>>
        r2 == IF Len(tops) >= 2 THEN RecOf(tops[2]) ELSE <<>>
        r3 == IF Len(tops) >= 3 THEN RecOf(tops[3]) ELSE <<>>
    IN <<PillarRec>> \o r1 \o r2 \o r3 \o TacticalRecs

\* recs, built by the chain of appends
RecommendedActions(tops) ==
    LET r0 == <<PillarRec>>
        r1 == IF InThemes("cost_coverage", tops) THEN Append(r0, CostCoverageRec) ELSE r0
        r2 == IF InThemes("how_to", tops) THEN Append(r1, HowToRec) ELSE r1
        r3 == IF InThemes("comparisons", tops) THEN Append(r2, ComparisonsRec) ELSE r2
        r4 == IF InThemes("success_rates", tops) THEN Append(r3, SuccessRatesRec) ELSE r3
        r5 == IF InThemes("local", tops) THEN Append(r4, LocalRec) ELSE r4
    IN r5 \o TacticalRecs

RECURSIVE SumVolumes(_)
\* df["volume"].sum()
SumVolumes(recs) ==
    IF recs = <<>> THEN 0
    ELSE SumVolumes(SubSeq(recs, 1, Len(recs) - 1)) + recs[Len(recs)].volume

\* mutant of EstClicks: the product is rounded to the nearest integer
EstClicksRounded(total) == (total * 5 + 50) \div 100

\* int(total_volume * 0.05): the product truncated toward zero.  (0.05 as a
\* double lies just above 1/20; for totals below 10^12 the rounded product
\* never falls on the other side of an integer.)
EstClicks(total) ==
    IF total >= 0 THEN (total * 5) \div 100 ELSE -(((-total) * 5) \div 100)

RECURSIVE JoinThemes(_)
\* ', '.join(top_themes)
JoinThemes(tops) ==
    IF Len(tops) = 0 THEN ""
    ELSE IF Len(tops) = 1 THEN tops[1]
    ELSE JoinThemes(SubSeq(tops, 1, Len(tops) - 1)) \o ", " \o tops[Len(tops)]

Summary(n, tops) ==
    "Found " \o IntToStr(n)
    \o " high-opportunity keywords where current ranking is weaker than the configured threshold. Top themes: "
    \o (IF Len(tops) > 0 THEN JoinThemes(tops) ELSE "general gaps") \o "."

\* mutant of NoGapsReport: the question is not echoed
NoGapsReportNoQuestion(q) ==
    [question |-> "",
     summary |-> "No gaps found based on current filters.",
     top_opportunities |-> <<>>,
     recommended_actions |->
        << "Lower the Min Volume filter, or raise the gap threshold to broaden results.",
           "Upload a SEMrush export with more keywords (Keyword Gap / Organic Research / Position Tracking)." >>,
     estimated_impact |-> "low (insufficient evidence rows)"]

\* the report of the "if not gap_data" branch
NoGapsReport(q) ==
    [question |-> q,
     summary |-> "No gaps found based on current filters.",
     top_opportunities |-> <<>>,
     recommended_actions |->
        << "Lower the Min Volume filter, or raise the gap threshold to broaden results.",
           "Upload a SEMrush export with more keywords (Keyword Gap / Organic Research / Position Tracking)." >>,
     estimated_impact |-> "low (insufficient evidence rows)"]

EstimatedImpact(recs) ==
    [method |-> "Sum(volume) * 0.05 (rough CTR capture proxy for demo)",
     total_volume_in_gaps |-> SumVolumes(recs),
     estimated_additional_clicks_per_month |-> EstClicks(SumVolumes(recs)),
     confidence |-> "low (rule-based prototype estimate)"]

\* keywords = df["keyword"].astype(str).tolist()
Keywords(recs) == [i \in 1..Len(recs) |-> recs[i].keyword]

\* the report of the main branch, for one outcome top_opps of the sort
GapsReport(q, recs, tops, top_opps) ==
    [question |-> q,
     summary |-> Summary(Len(recs), tops),
     top_opportunities |-> [i \in 1..Len(top_opps) |-> OpportunityItem(top_opps[i])],
     recommended_actions |-> RecommendedActions(tops),
     estimated_impact |-> EstimatedImpact(recs)]

-----------------------------------------------------------------------------
(* The inputs: uploaded tables, filter settings, questions *)

\* Exports with varied headers and cell values: the header and the rows a
\* table of that export may hold.
WidePools ==
    << \* canonical names; ties in volume and in position
       [cols |-> <<"Keyword", "Volume", "Position">>,
        pool |-> << <<TextCell("ivf cost"), IntCell(500), IntCell(35)>>,
                    <<TextCell("best clinic near me"), IntCell(300), IntCell(999)>>,
                    <<TextCell("IVF vs Surrogacy"), IntCell(500), IntCell(35)>>,
                    <<TextCell("how to qualify: success rates by age"),
                      IntCell(500), IntCell(25)>> >>],
       \* aliases, padded names, an extra column, malformed cells
       [cols |-> <<" Keyword ", "Search Volume", "Rank", "URL", "Domain", "Intent">>,
        pool |-> << <<TextCell("Egg Freezing Cost vs IVF"), TextCell("300"),
                      TextCell("unranked"), TextCell("https://example.com/a"),
                      TextCell("example.com"), TextCell("info")>>,
                    <<TextCell(""), FloatCell(1507), FloatCell(355), NaN,
                      IntCell(7), TextCell("")>>,
                    <<NaN, IntCell(-50), IntCell(0), TextCell(""),
                      TextCell("example.com"), NaN>> >>],
       \* no keyword column, the volume column comes first
       [cols |-> <<"Volume", "Position">>,
        pool |-> << <<IntCell(500), IntCell(40)>>,
                    <<IntCell(300), NaN>>,
                    <<FloatCell(1205), IntCell(10)>> >>],
       \* no keyword column, two volume aliases
       [cols |-> <<"Topic", "monthly_volume", "vol", "pos">>,
        pool |-> << <<TextCell("Insurance Coverage"), IntCell(100), IntCell(400),
                      IntCell(21)>>,
                    <<TextCell("compare clinics"), TextCell("1,200"), NaN, IntCell(20)>>,
                    <<TextCell("fertility"), IntCell(900), IntCell(99),
                      TextCell("-")>> >>],
       \* keywords only
       [cols |-> <<"keyword">>,
        pool |-> << <<TextCell("who can donate")>>,
                    <<TextCell("doctor")>>,
                    <<TextCell("Treatment Timeline")>> >>] >>

\* A long export: two kinds of row
LongPool ==
    [cols |-> <<"Keyword", "Volume", "Position">>,
     pool |-> << <<TextCell("ivf success rates"), IntCell(210), IntCell(40)>>,
                 <<TextCell("clinic near me"), IntCell(105), IntCell(999)>> >>]

\* the tables with rows drawn from pool p, of the given lengths
TablesOf(p, lengths) ==
    UNION { { [cols |-> p.cols, rows |-> [r \in 1..n |-> p.pool[pick[r]]]] :
                pick \in [1..n -> 1..Len(p.pool)] } : n \in lengths }

\* the long tables: MaxRows rows, a run of one kind of row and then a run of
\* the other
LongTables ==
    { [cols |-> LongPool.cols,
       rows |-> [r \in 1..MaxRows |-> LongPool.pool[IF r <= k THEN a ELSE 3 - a]]] :
        k \in 0..MaxRows, a \in 1..2 }

Tables ==
    UNION { TablesOf(WidePools[i], 0..MaxWideRows) : i \in 1..Len(WidePools) }
    \cup LongTables

MinVolumes == {0, 100}

Thresholds == {20, 999}

TopNs == {1, 2, 5, 25}

Questions == {"What prompts are we missing out on?", ""}

-----------------------------------------------------------------------------
(* The state machine: the steps of the page (app.py) *)

EmptyTable == [cols |-> <<>>, rows |-> <<>>]

NoReport ==
    [question |-> "", summary |-> "", top_opportunities |-> <<>>,
     recommended_actions |-> <<>>, estimated_impact |-> ""]

Init ==
    /\ pc = "idle"
    /\ df = EmptyTable
    /\ min_volume = 100
    /\ gap_position_threshold = 20
    /\ top_n = 25
    /\ norm = EmptyTable
    /\ gaps = <<>>
    /\ question = ""
    /\ top_themes = <<>>
    /\ insight = NoReport

\* df = pd.read_csv(uploaded_file)
read_csv ==
    /\ pc = "idle"
    /\ \E t \in Tables : df' = t
    /\ pc' = "uploaded"
    /\ UNCHANGED <<min_volume, gap_position_threshold, top_n, norm, gaps,
                   question, top_themes, insight>>

\* gaps = run_gap_analysis(df, min_volume, gap_position_threshold, top_n)
run_gap_analysis ==
    /\ pc = "uploaded"
    /\ \E mv \in MinVolumes, th \in Thresholds, n \in TopNs :
          /\ min_volume' = mv
          /\ gap_position_threshold' = th
          /\ top_n' = n
          /\ norm' = _normalize_columns(df)
          /\ gaps' = GapRecords(norm', mv, th, n)
    /\ pc' = "gaps"
    /\ UNCHANGED <<df, question, top_themes, insight>>

\* insight = generate_insight_no_llm(question, gaps)
generate_insight_no_llm ==
    /\ pc = "gaps"
    /\ IF gaps = <<>>
       THEN /\ top_themes' = <<>>
            /\ \E q \in Questions :
                  /\ question' = q
                  /\ insight' = NoGapsReport(q)
       ELSE /\ top_themes' = TopThemes(ThemeHits(Keywords(gaps)))
            /\ \E q \in Questions, top_opps \in TopOppsOutcomes(gaps) :
                  /\ question' = q
                  /\ insight' = GapsReport(q, gaps, top_themes', top_opps)
    /\ pc' = "done"
    /\ UNCHANGED <<df, min_volume, gap_position_threshold, top_n, norm, gaps>>

Next == read_csv \/ run_gap_analysis \/ generate_insight_no_llm

Spec == Init /\ [][Next]_vars

-----------------------------------------------------------------------------
(* Properties *)

Ran == pc \in {"gaps", "done"}

NormVolume(r) == norm.rows[r][ColumnIndex(norm, "volume")].num

NormPosition(r) == norm.rows[r][ColumnIndex(norm, "position")].num

\* the rows of the normalised table that satisfy both filter conditions
Qualifying ==
    {r \in 1..Len(norm.rows) :
        NormVolume(r) >= min_volume /\ NormPosition(r) > gap_position_threshold}

\* row a comes before row b in the ranking: larger volume, then smaller
\* position, then earlier in the table
RankedBefore(a, b) ==
    \/ NormVolume(a) > NormVolume(b)
    \/ NormVolume(a) = NormVolume(b) /\ NormPosition(a) < NormPosition(b)
    \/ NormVolume(a) = NormVolume(b) /\ NormPosition(a) = NormPosition(b) /\ a < b

RankOf(r) == Cardinality({q \in Qualifying : RankedBefore(q, r)}) + 1

FiveFields(r) ==
    [keyword |-> norm.rows[r][ColumnIndex(norm, "keyword")].text,
     volume |-> NormVolume(r),
     position |-> NormPosition(r),
     url |-> norm.rows[r][ColumnIndex(norm, "url")],
     domain |-> norm.rows[r][ColumnIndex(norm, "domain")]]

C2_NormalizedWellTyped ==
    Ran =>
        \A r \in 1..Len(norm.rows) :
            LET cell(name) == norm.rows[r][ColumnIndex(norm, name)]
            IN /\ Len(norm.rows[r]) = 5
               /\ {norm.cols[i] : i \in 1..Len(norm.cols)} =
                     {"keyword", "volume", "position", "url", "domain"}
               /\ cell("keyword").kind = "text" /\ Len(cell("keyword").text) > 0
               /\ cell("volume").kind = "int" /\ cell("volume").num >= 0
               /\ cell("position").kind = "int" /\ cell("position").num >= 1
               /\ cell("url").kind = "text"
               /\ cell("domain").kind = "text"

\* C3: called with an empty GapSet, generate_insight_no_llm returns the
\* fixed "no gaps" report with the question echoed unchanged.
C3_NoGapsReport ==
    (pc = "done" /\ Len(gaps) = 0) =>
        /\ DOMAIN insight = {"question", "summary", "top_opportunities",
                             "recommended_actions", "estimated_impact"}
        /\ insight.question = question
        /\ insight.summary = "No gaps found based on current filters."
        /\ insight.top_opportunities = <<>>
        /\ insight.recommended_actions =
              << "Lower the Min Volume filter, or raise the gap threshold to broaden results.",
                 "Upload a SEMrush export with more keywords (Keyword Gap / Organic Research / Position Tracking)." >>
        /\ insight.estimated_impact = "low (insufficient evidence rows)"

\* C3 witness: a report for a non-empty table none of whose rows is a gap,
\* asked with a non-empty question
C3_Witness ==
    /\ pc = "done"
    /\ Len(gaps) = 0
    /\ Len(df.rows) > 0
    /\ Len(question) > 0

\* C4: a row with volume >= min_volume whose position is above the
\* threshold or missing (999 or more) is returned as a gap whenever the
\* top_n cut leaves room for all such rows, for every threshold.
C4_MissingPositionIsGap ==
    Ran =>
        LET wanted == {r \in 1..Len(norm.rows) :
                          /\ NormVolume(r) >= min_volume
                          /\ (NormPosition(r) > gap_position_threshold
                              \/ NormPosition(r) >= 999)}
        IN Cardinality(wanted) <= top_n =>
              \A r \in wanted : \E k \in 1..Len(gaps) : gaps[k] = FiveFields(r)

\* the asset rules in their order, and the label when none matches
AssetRules ==
    << [tokens |-> <<"cost", "price", "coverage", "insurance">>,
        label |-> "Cost/Coverage hub page + FAQ"],
       [tokens |-> <<"vs", "versus", "compare", "best">>,
        label |-> "Comparison page"],
       [tokens |-> <<"how", "timeline", "steps", "process">>,
        label |-> "How-to / Timeline guide"],
       [tokens |-> <<"success", "rate", "chances", "age">>,
        label |-> "Success rates explainer (medically reviewed)"],
       [tokens |-> <<"near me", "clinic", "doctor", "center">>,
        label |-> "Local intent support page + FAQs"] >>

DefaultAsset == "Educational pillar page + supporting FAQs"

\* the rules with a token in the lowercased keyword
MatchingRules(keyword) ==
    LET low == Lower(keyword)
    IN {i \in 1..Len(AssetRules) :
           \E t \in 1..Len(AssetRules[i].tokens) :
               Contains(low, AssetRules[i].tokens[t])}

\* C5: every keyword gets exactly one of the six asset types: the label of
\* the earliest rule with a token in the lowercased keyword, and the
\* educational pillar page when no rule matches.
C5_AssetTypeFirstMatch ==
    (pc = "done") =>
        \A k \in 1..Len(insight.top_opportunities) :
            LET item == insight.top_opportunities[k]
                m == MatchingRules(item.keyword)
            IN /\ item.suggested_asset \in
                     {AssetRules[i].label : i \in 1..Len(AssetRules)} \cup {DefaultAsset}
               /\ m = {} => item.suggested_asset = DefaultAsset
               /\ m # {} => \E i \in m :
                     /\ \A j \in m : i <= j
                     /\ item.suggested_asset = AssetRules[i].label

\* C5 witness: the report lists a keyword matching two rules, the empty
\* keyword, and a keyword with an upper-case token
C5_Witness ==
    /\ pc = "done"
    /\ \E k \in 1..Len(insight.top_opportunities) :
          Cardinality(MatchingRules(insight.top_opportunities[k].keyword)) >= 2
    /\ \E k \in 1..Len(insight.top_opportunities) :
          /\ MatchingRules(insight.top_opportunities[k].keyword) = {}
          /\ Len(insight.top_opportunities[k].keyword) = 0
    /\ \E k \in 1..Len(insight.top_opportunities) :
          /\ MatchingRules(insight.top_opportunities[k].keyword) # {}
          /\ Lower(insight.top_opportunities[k].keyword) #
                insight.top_opportunities[k].keyword

\* for each theme, the gap keywords whose lowercased text contains one of
\* its tokens
ThemeKeywords ==
    LET low == [i \in 1..Len(gaps) |-> Lower(gaps[i].keyword)] \o <<>>
    IN [t \in 1..Len(Themes) |->
           {i \in 1..Len(gaps) :
               \E k \in 1..Len(Themes[t].tokens) : Contains(low[i], Themes[t].tokens[k])}]
       \o <<>>

\* theme a is listed before theme b under the counts cnt: more hits, then
\* earlier in the enumeration
ThemeBefore(cnt, a, b) == cnt[a] > cnt[b] \/ (cnt[a] = cnt[b] /\ a < b)

\* the place of theme t among the themes with a hit
ThemeRank(cnt, t) ==
    Cardinality({u \in 1..Len(Themes) : cnt[u] > 0 /\ ThemeBefore(cnt, u, t)}) + 1

\* the names of the (at most three) best themes, comma-joined
RenderedThemes(cnt) ==
    LET hit == {t \in 1..Len(Themes) : cnt[t] > 0}
        name(k) == Themes[CHOOSE t \in hit : ThemeRank(cnt, t) = k].name
    IN CASE Cardinality(hit) = 0 -> "general gaps"
         [] Cardinality(hit) = 1 -> name(1)
         [] Cardinality(hit) = 2 -> name(1) \o ", " \o name(2)
         [] OTHER -> name(1) \o ", " \o name(2) \o ", " \o name(3)

\* C6: a theme's count is the number of gap keywords whose lowercased text
\* contains one of its tokens; top_themes is the at most 3 themes with a
\* positive count, by count descending and then enumeration order, and the
\* summary renders them comma-joined, or "general gaps" when there is none.
C6_TopThemes ==
    (pc = "done" /\ Len(gaps) > 0) =>
        LET kws == ThemeKeywords
            cnt == [t \in 1..Len(Themes) |-> Cardinality(kws[t])] \o <<>>
            hit == {t \in 1..Len(Themes) : cnt[t] > 0}
        IN /\ Len(top_themes) = (IF Cardinality(hit) <= 3 THEN Cardinality(hit) ELSE 3)
           /\ \A k \in 1..Len(top_themes) :
                 \E t \in hit : ThemeRank(cnt, t) = k /\ top_themes[k] = Themes[t].name
           /\ insight.summary =
                 "Found " \o IntToStr(Len(gaps))
                 \o " high-opportunity keywords where current ranking is weaker than the configured threshold. Top themes: "
                 \o RenderedThemes(cnt) \o "."

\* C6 witness: more than three themes are hit, two of the listed ones tie,
\* one keyword counts toward two themes, and a later theme outranks an
\* earlier one
C6_Witness ==
    /\ pc = "done"
    /\ Len(gaps) > 0
    /\ LET kws == ThemeKeywords
           cnt == [t \in 1..Len(Themes) |-> Cardinality(kws[t])] \o <<>>
           hit == {t \in 1..Len(Themes) : cnt[t] > 0}
       IN /\ Cardinality(hit) > 3
          /\ \E a, b \in hit :
                /\ a # b /\ ThemeRank(cnt, a) <= 3 /\ ThemeRank(cnt, b) <= 3
                /\ cnt[a] = cnt[b]
          /\ \E a, b \in hit : a # b /\ kws[a] \cap kws[b] # {}
          /\ \E a, b \in hit : a < b /\ cnt[a] < cnt[b]

\* the sum of the volumes of all the gap records
TotalGapVolume ==
    LET S[k \in 0..Len(gaps)] == IF k = 0 THEN 0 ELSE S[k - 1] + gaps[k].volume
    IN S[Len(gaps)]

\* C7: total_volume_in_gaps is the sum of the volumes of all gap records,
\* and the estimated clicks are floor(total / 20); 1000 gives 50.
C7_ImpactEstimate ==
    (pc = "done" /\ Len(gaps) > 0) =>
        LET clicks == insight.estimated_impact.estimated_additional_clicks_per_month
        IN /\ insight.estimated_impact.total_volume_in_gaps = TotalGapVolume
           /\ 20 * clicks <= TotalGapVolume
           /\ TotalGapVolume < 20 * (clicks + 1)
           /\ TotalGapVolume = 1000 => clicks = 50

\* C7 witness: more gap records than listed opportunities, and a total that
\* is not a multiple of 20
C7_Witness ==
    /\ pc = "done"
    /\ Len(gaps) > TopOpps
    /\ Len(insight.top_opportunities) = TopOpps
    /\ TotalGapVolume % 20 # 0

\* gap record a comes before b among the opportunities: larger volume, then
\* earlier in the GapSet
OppBefore(a, b) ==
    gaps[a].volume > gaps[b].volume \/ (gaps[a].volume = gaps[b].volume /\ a < b)

OppRank(i) == Cardinality({j \in 1..Len(gaps) : OppBefore(j, i)}) + 1

\* C8: top_opportunities holds min(8, n) items, the highest-volume gap
\* records in volume-descending order with records of equal volume in
\* their GapSet order, each with keyword, volume, current_position, asset
\* type and the fixed note.
C8_TopOpportunitiesStable ==
    (pc = "done" /\ Len(gaps) > 0) =>
        /\ Len(insight.top_opportunities) = (IF Len(gaps) <= 8 THEN Len(gaps) ELSE 8)
        /\ \A k \in 1..Len(insight.top_opportunities) :
              \E i \in 1..Len(gaps) :
                 /\ OppRank(i) = k
                 /\ insight.top_opportunities[k] =
                       [keyword |-> gaps[i].keyword,
                        volume |-> gaps[i].volume,
                        current_position |-> gaps[i].position,
                        suggested_asset |-> _suggest_asset_type(gaps[i].keyword),
                        notes |-> "Prioritize by volume + intent; treat this as a content brief starter."]

\* the themes with a recommendation, in the order the recommendations appear
ThemeRecs ==
    << [theme |-> "cost_coverage", rec |-> CostCoverageRec],
       [theme |-> "how_to", rec |-> HowToRec],
       [theme |-> "comparisons", rec |-> ComparisonsRec],
       [theme |-> "success_rates", rec |-> SuccessRatesRec],
       [theme |-> "local", rec |-> LocalRec] >>

\* C9: recommended_actions is the pillar-page recommendation, then the
\* sentences of cost_coverage, how_to, comparisons, success_rates, local
\* that are in top_themes, in that order, then the three tactical ones.
C9_RecommendedActions ==
    (pc = "done" /\ Len(gaps) > 0) =>
        LET Listed(e) == \E i \in 1..Len(top_themes) : top_themes[i] = e.theme
            chosen == SelectSeq(ThemeRecs, Listed)
        IN insight.recommended_actions =
              <<PillarRec>> \o [i \in 1..Len(chosen) |-> chosen[i].rec] \o TacticalRecs

\* C9 witness: comparisons is listed ahead of how_to in top_themes (its
\* sentence still follows), and eligibility is a top theme
C9_Witness ==
    /\ pc = "done"
    /\ Len(gaps) > 0
    /\ \E i, j \in 1..Len(top_themes) :
          i < j /\ top_themes[i] = "comparisons" /\ top_themes[j] = "how_to"

\* the column of the uploaded table the volume is to come from: "volume",
\* else the first alias present; 0 when there is none
VolumeSource ==
    LET names == [i \in 1..Len(df.cols) |-> Lower(Strip(df.cols[i]))]
        wanted == <<"volume">> \o VolumeAliases
        present == {k \in 1..Len(wanted) : \E i \in 1..Len(names) : names[i] = wanted[k]}
    IN IF present = {} THEN 0
       ELSE CHOOSE i \in 1..Len(names) :
               names[i] = wanted[CHOOSE k \in present : \A j \in present : k <= j]

\* C10: the normalised volume of every row comes from the "volume" column
\* if the table has one, else from the first alias present, and is the
\* default 0 only when the table has none of them, whichever column
\* serves as the keyword.
C10_VolumeFromVolumeColumn ==
    Ran =>
        \A r \in 1..Len(df.rows) :
            NormVolume(r) = (IF VolumeSource = 0 THEN 0
                             ELSE CoerceVolume(df.rows[r][VolumeSource]).num)

=============================================================================
